---- MODULE Spec2Model ----
(***************************************************************************)
(* Jellydump (src/main.py): an HTTP API that starts one background         *)
(* download job at a time and reports its progress.                        *)
(*                                                                         *)
(* The model follows the three kinds of thread of control of the program:  *)
(*   - POST /pull handlers      (pull, lines 164-187),                     *)
(*   - GET /status handlers     (status, lines 189-231),                   *)
(*   - one background task per job (_run_download, lines 91-162), inside   *)
(*     which the downloader calls the progress hook (lines 54-89).         *)
(* Every access to the shared registry `jobs` is one step; the steps of    *)
(* different threads interleave freely, except where jobs_lock excludes    *)
(* them.  Handlers are scheduled independently of each other, which        *)
(* includes the schedules of a single event loop.                          *)
(***************************************************************************)
EXTENDS Integers, Sequences, FiniteSets, TLC

(***************************************************************************)
(* Bounds of the model.                                                    *)
(***************************************************************************)
\* number of job records the model lets POST /pull create
MaxJobs == 2
\* number of output files the downloader writes into one season folder
MaxFiles == 1
\* number of job records in the runs in which GET /status is polled
MaxPolledJobs == 1
\* largest byte count a progress event reports as downloaded
MaxBytes == 3
\* largest byte count a progress event reports as total or as estimate
MaxTotal == 2

(***************************************************************************)
(* Strings the code takes apart or builds are sequences of characters;     *)
(* strings it only stores and compares are TLA+ strings.                   *)
(***************************************************************************)
Digit(n) == CASE n = 0 -> "0" [] n = 1 -> "1" [] n = 2 -> "2" [] n = 3 -> "3"
              [] n = 4 -> "4" [] n = 5 -> "5" [] n = 6 -> "6" [] n = 7 -> "7"
              [] n = 8 -> "8" [] n = 9 -> "9"

RECURSIVE Decimal(_)
\* str(n) of a natural number
Decimal(n) == IF n < 10 THEN <<Digit(n)>> ELSE Decimal(n \div 10) \o <<Digit(n % 10)>>

\* f"{n:02d}" of a natural number: at least two digits, zero padded
Format02d(n) == IF n < 10 THEN <<"0">> \o Decimal(n) ELSE Decimal(n)

IsSpace(c) == c \in {" ", "\t", "\n"}

RECURSIVE LStrip(_)
LStrip(s) == IF s # <<>> /\ IsSpace(Head(s)) THEN LStrip(Tail(s)) ELSE s

RECURSIVE RStrip(_)
RStrip(s) == IF s # <<>> /\ IsSpace(s[Len(s)]) THEN RStrip(SubSeq(s, 1, Len(s) - 1)) ELSE s

\* str.strip()
Strip(s) == RStrip(LStrip(s))

\* str.startswith
StartsWith(s, prefix) == Len(s) >= Len(prefix) /\ SubSeq(s, 1, Len(prefix)) = prefix

\* dict.update(d): the keys of d are written over meta, the others stay
DictUpdate(meta, d) == d @@ meta

\* dict[key] = value
DictSet(meta, key, value) == (key :> value) @@ meta

\* key in dict
Has(meta, key) == key \in DOMAIN meta

(***************************************************************************)
(* Requests.                                                               *)
(***************************************************************************)
tt0111161 == <<"t", "t", "0", "1", "1", "1", "1", "6", "1">>

ShowName == <<"S", "h", "o", "w">>

PlaylistUrl == [scheme |-> "https", host |-> "example.org"]

\* the bodies POST /pull is called with that pass validation
ValidRequests ==
    { [url |-> PlaylistUrl, imdbid |-> tt0111161, name |-> ShowName \o <<" ">>, season |-> 1],
      [url |-> PlaylistUrl, imdbid |-> tt0111161, name |-> ShowName, season |-> 2] }

\* bodies that violate a field constraint
InvalidRequests ==
    { [url |-> PlaylistUrl, imdbid |-> <<"t", "t", "1">>, name |-> ShowName, season |-> 1],
      [url |-> PlaylistUrl, imdbid |-> <<"n", "m", "0", "1", "1", "1", "1", "6", "1">>, name |-> ShowName, season |-> 1],
      [url |-> PlaylistUrl, imdbid |-> tt0111161, name |-> ShowName, season |-> 0],
      [url |-> [scheme |-> "ftp", host |-> "example.org"], imdbid |-> tt0111161, name |-> ShowName, season |-> 1] }

Requests == ValidRequests \cup InvalidRequests

\* url: HttpUrl, an absolute http or https URL with a host
HttpUrl(url) == url.scheme \in {"http", "https"} /\ url.host # ""

\* RequestPayload.validate_imdbid
validate_imdbid(v) == StartsWith(v, <<"t", "t">>) /\ Len(v) >= 7

\* RequestPayload.validate_season together with Field(ge=1)
validate_season(v) == v >= 1

\* RequestPayload: the body passes validation
RequestPayload(body) ==
    /\ HttpUrl(body.url)
    /\ validate_imdbid(body.imdbid)
    /\ validate_season(body.season)

(***************************************************************************)
(* Paths.  A path under BASE_DATA_DIR is the sequence of its folder names. *)
(***************************************************************************)
\* main_dir of _run_download
MainDir(payload) ==
    << Strip(payload.name) \o <<" ", "[", "i", "m", "d", "b", "i", "d", "-">>
         \o payload.imdbid \o <<"]">> >>

\* season_dir of _run_download
SeasonDir(payload) ==
    MainDir(payload) \o << <<"S", "e", "a", "s", "o", "n", " ">> \o Format02d(payload.season) >>

MainPaths == { MainDir(r) : r \in ValidRequests }

SeasonPaths == { SeasonDir(r) : r \in ValidRequests }

Paths == MainPaths \cup SeasonPaths

Parent(path) == SubSeq(path, 1, Len(path) - 1)

(***************************************************************************)
(* The file system under BASE_DATA_DIR: the kind of every path the         *)
(* requests can name, and the entries of every season folder.              *)
(***************************************************************************)
RECURSIVE LastDot(_)
\* the index of the last "." of a file name, 0 if it has none
LastDot(name) ==
    IF name = <<>> THEN 0
    ELSE IF name[Len(name)] = "." THEN Len(name)
    ELSE LastDot(SubSeq(name, 1, Len(name) - 1))

\* Path.suffix: the final component's last "." and what follows it
Suffix(name) ==
    IF LastDot(name) <= 1 \/ LastDot(name) = Len(name) THEN <<>>
    ELSE SubSeq(name, LastDot(name), Len(name))

LowerChar(c) == CASE c = "M" -> "m" [] c = "P" -> "p" [] c = "A" -> "a" [] OTHER -> c

\* str.lower()
Lower(s) == [i \in 1..Len(s) |-> LowerChar(s[i])]

Mp4 == <<".", "m", "p", "4">>

\* count_media_files without p.is_file(): every entry with the suffix counts
count_media_entries(kinds, entries, folder, suffix) ==
    IF kinds[folder] # "dir" THEN 0
    ELSE Cardinality({ p \in entries[folder] : Lower(Suffix(p.name)) = Lower(suffix) })

\* count_media_files(folder, suffix)
count_media_files(kinds, entries, folder, suffix) ==
    IF kinds[folder] # "dir" THEN 0
    ELSE Cardinality({ p \in entries[folder] :
                         p.kind = "file" /\ Lower(Suffix(p.name)) = Lower(suffix) })

\* build_output_template(name, season) with %(autonumber)02d and %(ext)s filled in
build_output_template(name, season, autonumber, ext) ==
    name \o <<" ", "S">> \o Format02d(season) \o <<"E">> \o Format02d(autonumber)
         \o <<".">> \o ext

\* what the downloader writes for one output, in this order: the audio
\* stream, then the merged output
Exts == << <<"m", "4", "a">>, <<"m", "p", "4">> >>

(***************************************************************************)
(* Progress events and the values the hook derives from them.              *)
(***************************************************************************)
\* the dictionaries the downloader passes to the progress hook
Events ==
    { [status |-> "downloading", downloaded_bytes |-> 1, total_bytes |-> 2,
       speed |-> 2048, info_dict |-> [title |-> "Episode"]],
      [status |-> "finished", downloaded_bytes |-> 2, total_bytes_estimate |-> 2,
       info_dict |-> [title |-> "Episode"]],
      [status |-> "error", downloaded_bytes |-> 1, total_bytes |-> 2],
      [downloaded_bytes |-> 1, total_bytes |-> 2] }

\* d.get(key, default)
DictGet(d, key, default) == IF Has(d, key) THEN d[key] ELSE default

\* d.get("total_bytes") or d.get("total_bytes_estimate"); None and 0 are both
\* falsy and are both 0 here
HookTotal(d) ==
    IF DictGet(d, "total_bytes", 0) # 0 THEN d.total_bytes
    ELSE DictGet(d, "total_bytes_estimate", 0)

\* percent = int((downloaded / total) * 100) if total else 0; for the byte
\* counts of the model the double-precision quotient and product have the
\* integer part of the exact value
HookPercent(d) ==
    IF HookTotal(d) # 0
    THEN (DictGet(d, "downloaded_bytes", 0) * 100) \div HookTotal(d)
    ELSE 0

\* title = d.get("info_dict", {}).get("title", "")
HookTitle(d) == IF Has(d, "info_dict") THEN DictGet(d.info_dict, "title", "") ELSE ""

\* num / den rounded to the nearest integer, ties to even
RoundDiv(num, den) ==
    LET q == num \div den
        r == num % den
    IN  IF 2 * r > den \/ (2 * r = den /\ q % 2 = 1) THEN q + 1 ELSE q

RECURSIVE GCD(_, _)
GCD(a, b) == IF b = 0 THEN a ELSE GCD(b, a % b)

\* f"{num / den:.2f}": the quotient in hundredths; the fraction is reduced
\* first so that the product stays below 2^31
Format2f(num, den) ==
    LET g == GCD(num, den)
        h == RoundDiv((num \div g) * 100, den \div g)
    IN  Decimal(h \div 100) \o <<".">> \o Format02d(h % 100)

KiB == 1024

MiB == 1048576

GiB == 1073741824

\* the speed string of the hook, lines 65-76
HookSpeed(d) ==
    LET speed_raw == DictGet(d, "speed", 0)
    IN  IF speed_raw # 0
        THEN IF speed_raw > GiB THEN Format2f(speed_raw, GiB) \o <<" ", "G", "i", "B", "/", "s">>
             ELSE IF speed_raw > MiB THEN Format2f(speed_raw, MiB) \o <<" ", "M", "i", "B", "/", "s">>
             ELSE IF speed_raw > KiB THEN Format2f(speed_raw, KiB) \o <<" ", "K", "i", "B", "/", "s">>
             ELSE Decimal(speed_raw) \o <<" ", "B", "/", "s">>
        ELSE <<>>

\* line 56 letting every event with a status tag through
HookAcceptsAnyTag(d) == Has(d, "status")

\* the event passes the filter of line 56
HookAccepts(d) == DictGet(d, "status", "") \in {"downloading", "finished"}

\* the dictionary the hook passes to job_meta.update, lines 83-88
HookFields(d, episode_no) ==
    [progress_percent |-> HookPercent(d),
     current_title |-> HookTitle(d),
     speed |-> HookSpeed(d),
     current_episode |-> episode_no]

(***************************************************************************)
(* State.                                                                  *)
(***************************************************************************)
VARIABLES
    jobs,       \* the registry: job id -> job dictionary (line 20)
    jobs_lock,  \* the thread that holds jobs_lock (line 21)
    clock,      \* the number of timestamps taken; datetime.now() reads it
    kinds,      \* file system: path -> "none", "dir" or "file"
    entries,    \* file system: season folder -> the entries in it
    pull,       \* the POST /pull handlers: where each one is and its locals
    stat,       \* the GET /status handlers: where each one is and its locals
    task,       \* the background task of each job: where it is and its locals
    hist        \* history: the values the record had while a status read ran

vars == <<jobs, jobs_lock, clock, kinds, entries, pull, stat, task, hist>>

PullThreads == {"p1", "p2"}

StatusThreads == {"s1"}

\* who holds the lock
Unlocked == [kind |-> "none", thr |-> "", job |-> 0]

PullThread(p) == [kind |-> "pull", thr |-> p, job |-> 0]

StatusThread(s) == [kind |-> "status", thr |-> s, job |-> 0]

TaskThread(j) == [kind |-> "task", thr |-> "", job |-> j]

JobIds == DOMAIN jobs

\* line 167 with the test for "pending" left out
ActiveRunningOnly(meta) == meta.status = "running"

\* the test of line 167
Active(meta) == meta.status \in {"pending", "running"}

NoRequest == [none |-> TRUE]

NoResponse == [none |-> TRUE]

NoEvent == [none |-> TRUE]

IdlePull == [pc |-> "idle", request |-> NoRequest, resp |-> NoResponse]

IdleStatus == [pc |-> "idle", job_id |-> 0, found |-> FALSE, resp |-> NoResponse]

\* the locals of a task, and what it met: `existed` says whether the season
\* folder was there when line 112 ran, `invoked` whether ydl.download was called
NewTask == [pc |-> "added", payload |-> NoRequest, exc |-> "", d |-> NoEvent,
            fields |-> NoEvent, retcode |-> 0, existed |-> "", invoked |-> FALSE]

\* the file systems the program starts on: the main folder is absent, a file
\* or a folder; in a main folder the folder of season 1 is absent or there
\* (and empty), the one of season 2 is absent
InitialKinds ==
    { k \in [Paths -> {"none", "dir", "file"}] :
        /\ \A sp \in SeasonPaths : k[sp] \in {"none", "dir"}
        /\ \A sp \in SeasonPaths : k[Parent(sp)] # "dir" => k[sp] = "none"
        /\ \A r \in ValidRequests : r.season # 1 => k[SeasonDir(r)] = "none" }

Init ==
    /\ jobs = <<>>
    /\ jobs_lock = Unlocked
    /\ clock = 0
    /\ kinds \in InitialKinds
    /\ entries = [sp \in SeasonPaths |-> {}]
    /\ pull = [p \in PullThreads |-> IdlePull]
    /\ stat = [s \in StatusThreads |-> IdleStatus]
    /\ task = <<>>
    /\ hist = [s \in StatusThreads |-> {}]

\* the lines of status at which meta is held
ReadingLines == {"L197", "L203", "L206", "L209", "L212", "L215", "L218", "L225", "sent"}

\* history: every value the record took between line 192 and the return of
\* the status read that holds it
HistNext ==
    hist' = [s \in StatusThreads |->
               IF stat'[s].pc \in ReadingLines /\ stat'[s].found
               THEN hist[s] \cup {jobs'[stat'[s].job_id]}
               ELSE {}]

(***************************************************************************)
(* POST /pull, lines 164-187.                                              *)
(***************************************************************************)
\* line 167
AnyActive == \E id \in JobIds : Active(jobs[id])

\* the request arrives; FastAPI validates the body before it calls pull, and
\* line 166 takes jobs_lock
PullCall(p, body) ==
    /\ pull[p].pc = "idle"
    /\ RequestPayload(body)
    /\ jobs_lock = Unlocked
    /\ jobs_lock' = PullThread(p)
    /\ pull' = [pull EXCEPT ![p] = [@ EXCEPT !.pc = "L167", !.request = body]]
    /\ UNCHANGED <<jobs, clock, kinds, entries, stat, task>>
    /\ HistNext

\* the body is validated inside pull, after the test of line 167: while a
\* job is active the answer is the conflict error
PullRejectAfterActiveCheck(p, body) ==
    /\ pull[p].pc = "idle"
    /\ ~RequestPayload(body)
    /\ pull' = [pull EXCEPT ![p] = [@ EXCEPT !.pc = "sent", !.request = body,
                        !.resp = [code |-> IF AnyActive THEN 409 ELSE 422]]]
    /\ UNCHANGED <<jobs, jobs_lock, clock, kinds, entries, stat, task>>
    /\ HistNext

\* the request arrives with a body that fails validation: FastAPI answers 422
\* and does not call pull
PullReject(p, body) ==
    /\ pull[p].pc = "idle"
    /\ ~RequestPayload(body)
    /\ pull' = [pull EXCEPT ![p] = [@ EXCEPT !.pc = "sent", !.request = body,
                                        !.resp = [code |-> 422]]]
    /\ UNCHANGED <<jobs, jobs_lock, clock, kinds, entries, stat, task>>
    /\ HistNext

\* lines 167-172: a job is active, HTTPException(409) leaves the with block
PullConflict(p) ==
    /\ pull[p].pc = "L167"
    /\ AnyActive
    /\ jobs_lock' = Unlocked
    /\ pull' = [pull EXCEPT ![p] = [@ EXCEPT !.pc = "sent", !.request = NoRequest,
                                        !.resp = [code |-> 409]]]
    /\ UNCHANGED <<jobs, clock, kinds, entries, stat, task>>
    /\ HistNext

\* an identifier that a record of the registry may have already
ReusedJobId == IF JobIds = {} THEN 1 ELSE CHOOSE j \in JobIds : TRUE

\* str(uuid.uuid4()): an identifier no record has
NewJobId == Cardinality(JobIds) + 1

\* the record of lines 175-179
NewRecord(request) == [status |-> "pending", created_at |-> clock, payload |-> request]

\* lines 174-187: no job is active; the record is inserted, the lock is
\* released, the task is added and the response is returned
PullCreate(p) ==
    /\ pull[p].pc = "L167"
    /\ ~AnyActive
    /\ jobs' = DictSet(jobs, NewJobId, NewRecord(pull[p].request))
    /\ task' = DictSet(task, NewJobId, [NewTask EXCEPT !.payload = pull[p].request])
    /\ clock' = clock + 1
    /\ jobs_lock' = Unlocked
    /\ pull' = [pull EXCEPT ![p] = [@ EXCEPT !.pc = "sent", !.request = NoRequest,
           !.resp = [code |-> 200, job_id |-> NewJobId, status |-> "pending",
                     message |-> "Download started."]]]
    /\ UNCHANGED <<kinds, entries, stat>>
    /\ HistNext

\* the response has been sent; the background task of the request starts
PullDone(p) ==
    /\ pull[p].pc = "sent"
    /\ task' = IF pull[p].resp.code = 200
               THEN [task EXCEPT ![pull[p].resp.job_id].pc = "L92"]
               ELSE task
    /\ pull' = [pull EXCEPT ![p] = IdlePull]
    /\ UNCHANGED <<jobs, jobs_lock, clock, kinds, entries, stat>>
    /\ HistNext

(***************************************************************************)
(* The background task _run_download(job_id, payload), lines 91-162.       *)
(***************************************************************************)
\* the argument payload of _run_download: the request that line 181 passes
Payload(j) == task[j].payload

\* datetime.now().isoformat(), datetime.utcnow().isoformat()
Now == clock

\* a task has gone past the import of line 92: the module is loaded, and
\* a later import of it finds it
Imported == \E k \in DOMAIN task : task[k].pc \notin {"added", "L92", "raised"}

\* line 92: the import raises (the package is missing or broken); the
\* statement stands before the try, so the exception leaves the task and the
\* record stays as pull made it
RunImportFails(j) ==
    /\ task[j].pc = "L92"
    /\ ~Imported
    /\ task' = [task EXCEPT ![j].pc = "raised", ![j].exc = "No module named 'yt_dlp'"]
    /\ UNCHANGED <<jobs, jobs_lock, clock, kinds, entries, pull, stat>>
    /\ HistNext

\* lines 92-94: the import succeeds; with jobs_lock
RunAcquire(j) ==
    /\ task[j].pc = "L92"
    /\ jobs_lock = Unlocked
    /\ jobs_lock' = TaskThread(j)
    /\ task' = [task EXCEPT ![j].pc = "L95"]
    /\ UNCHANGED <<jobs, clock, kinds, entries, pull, stat>>
    /\ HistNext

\* line 95 left out: the task goes on and the status stays "pending"
RunSetRunningForgotten(j) ==
    /\ task[j].pc = "L95"
    /\ task' = [task EXCEPT ![j].pc = "L96"]
    /\ UNCHANGED <<jobs, jobs_lock, clock, kinds, entries, pull, stat>>
    /\ HistNext

\* line 95
RunSetRunning(j) ==
    /\ task[j].pc = "L95"
    /\ jobs' = [jobs EXCEPT ![j] = DictSet(@, "status", "running")]
    /\ task' = [task EXCEPT ![j].pc = "L96"]
    /\ UNCHANGED <<jobs_lock, clock, kinds, entries, pull, stat>>
    /\ HistNext

\* line 96
RunSetStarted(j) ==
    /\ task[j].pc = "L96"
    /\ jobs' = [jobs EXCEPT ![j] = DictSet(@, "started_at", Now)]
    /\ clock' = clock + 1
    /\ task' = [task EXCEPT ![j].pc = "L97"]
    /\ UNCHANGED <<jobs_lock, kinds, entries, pull, stat>>
    /\ HistNext

\* lines 97-101, and the end of the with block
RunResetProgress(j) ==
    /\ task[j].pc = "L97"
    /\ jobs' = [jobs EXCEPT ![j] = DictUpdate(@,
           [progress_percent |-> 0, current_title |-> "", speed |-> <<>>])]
    /\ jobs_lock' = Unlocked
    /\ task' = [task EXCEPT ![j].pc = "L107"]
    /\ UNCHANGED <<clock, kinds, entries, pull, stat>>
    /\ HistNext

\* line 107: main_dir.mkdir(parents=True, exist_ok=True); FileExistsError if
\* the path is there and is no folder
RunMkdirMain(j) ==
    /\ task[j].pc = "L107"
    /\ IF kinds[MainDir(Payload(j))] = "file"
       THEN /\ task' = [task EXCEPT ![j] = [@ EXCEPT !.pc = "L150",
                                                !.exc = "[Errno 17] File exists"]]
            /\ UNCHANGED kinds
       ELSE /\ kinds' = [kinds EXCEPT ![MainDir(Payload(j))] = "dir"]
            /\ task' = [task EXCEPT ![j].pc = "L112"]
    /\ UNCHANGED <<jobs, jobs_lock, clock, entries, pull, stat>>
    /\ HistNext

\* line 112 with exist_ok=True: a season folder that is there is used
RunMkdirSeasonExistOk(j) ==
    /\ task[j].pc = "L112"
    /\ kinds' = [kinds EXCEPT ![SeasonDir(Payload(j))] = "dir"]
    /\ task' = [task EXCEPT ![j] = [@ EXCEPT !.pc = "L135", !.invoked = TRUE,
           !.existed = IF kinds[SeasonDir(Payload(j))] # "none" THEN "yes" ELSE "no"]]
    /\ UNCHANGED <<jobs, jobs_lock, clock, entries, pull, stat>>
    /\ HistNext

\* line 112: season_dir.mkdir(parents=False, exist_ok=False); FileExistsError
\* if the path is there
RunMkdirSeason(j) ==
    /\ task[j].pc = "L112"
    /\ IF kinds[SeasonDir(Payload(j))] # "none"
       THEN /\ task' = [task EXCEPT ![j] = [@ EXCEPT !.pc = "L150", !.existed = "yes",
                                                !.exc = "[Errno 17] File exists"]]
            /\ UNCHANGED kinds
       ELSE /\ kinds' = [kinds EXCEPT ![SeasonDir(Payload(j))] = "dir"]
            /\ task' = [task EXCEPT ![j] = [@ EXCEPT !.pc = "L135", !.existed = "no",
                                                !.invoked = TRUE]]
    /\ UNCHANGED <<jobs, jobs_lock, clock, entries, pull, stat>>
    /\ HistNext

\* lines 107, 112: mkdir fails with another OSError (no permission, disk full)
RunMkdirFails(j) ==
    /\ task[j].pc \in {"L107", "L112"}
    /\ task' = [task EXCEPT ![j] = [@ EXCEPT !.pc = "L157",
                                        !.exc = "[Errno 13] Permission denied"]]
    /\ UNCHANGED <<jobs, jobs_lock, clock, kinds, entries, pull, stat>>
    /\ HistNext

(***************************************************************************)
(* Lines 135-136: the downloader, which this repository calls and does not *)
(* hold.  Inside ydl.download it writes output files, calls the progress   *)
(* hook, and ends by returning its return code or by raising.              *)
(***************************************************************************)
\* the autonumber of the output the downloader is working on
Autonumber(j) == count_media_files(kinds, entries, SeasonDir(Payload(j)), Mp4) + 1

\* the downloader writes a file of the output template into the season folder
DownloaderWrites(j) ==
    /\ task[j].pc = "L135"
    /\ Autonumber(j) <= MaxFiles
    /\ LET File(i) == [name |-> build_output_template(Strip(Payload(j).name),
                                    Payload(j).season, Autonumber(j), Exts[i]),
                       kind |-> "file"]
           here == entries[SeasonDir(Payload(j))]
       IN  entries' = [entries EXCEPT ![SeasonDir(Payload(j))] =
                          IF File(1) \in here THEN here \cup {File(2)}
                          ELSE here \cup {File(1)}]
    /\ UNCHANGED <<jobs, jobs_lock, clock, kinds, pull, stat, task>>
    /\ HistNext

\* the downloader calls hook(d)
DownloaderCallsHook(j, d) ==
    /\ task[j].pc = "L135"
    /\ task' = [task EXCEPT ![j] = [@ EXCEPT !.pc = "L56", !.d = d]]
    /\ UNCHANGED <<jobs, jobs_lock, clock, kinds, entries, pull, stat>>
    /\ HistNext

\* ydl.download returns; line 136 drops the return code (0: every download
\* succeeded, 1: a download failed and "ignoreerrors" kept it from raising)
DownloaderReturns(j, retcode) ==
    /\ task[j].pc = "L135"
    /\ task' = [task EXCEPT ![j] = [@ EXCEPT !.pc = "L138", !.retcode = retcode]]
    /\ UNCHANGED <<jobs, jobs_lock, clock, kinds, entries, pull, stat>>
    /\ HistNext

\* YoutubeDL(...) or ydl.download raises
DownloaderRaises(j) ==
    /\ task[j].pc = "L135"
    /\ task' = [task EXCEPT ![j] = [@ EXCEPT !.pc = "L157",
                                        !.exc = "ERROR: unable to download"]]
    /\ UNCHANGED <<jobs, jobs_lock, clock, kinds, entries, pull, stat>>
    /\ HistNext

(***************************************************************************)
(* The progress hook, lines 55-88, on the thread of the task.              *)
(***************************************************************************)
\* lines 56-57: the event is dropped
HookIgnores(j) ==
    /\ task[j].pc = "L56"
    /\ ~HookAccepts(task[j].d)
    /\ task' = [task EXCEPT ![j] = [@ EXCEPT !.pc = "L135", !.d = NoEvent]]
    /\ UNCHANGED <<jobs, jobs_lock, clock, kinds, entries, pull, stat>>
    /\ HistNext

\* lines 59-78 inside the with block: jobs_lock is taken before the season
\* folder is listed
HookComputesHoldingLock(j) ==
    /\ task[j].pc = "L56"
    /\ HookAccepts(task[j].d)
    /\ jobs_lock = Unlocked
    /\ jobs_lock' = TaskThread(j)
    /\ task' = [task EXCEPT ![j] = [@ EXCEPT !.pc = "L80",
           !.fields = HookFields(task[j].d,
                         count_media_files(kinds, entries, SeasonDir(Payload(j)), Mp4))]]
    /\ UNCHANGED <<jobs, clock, kinds, entries, pull, stat>>
    /\ HistNext

\* lines 59-78: the fields are computed, the season folder is listed
HookComputes(j) ==
    /\ task[j].pc = "L56"
    /\ HookAccepts(task[j].d)
    /\ task' = [task EXCEPT ![j] = [@ EXCEPT !.pc = "L80",
           !.fields = HookFields(task[j].d,
                         count_media_files(kinds, entries, SeasonDir(Payload(j)), Mp4))]]
    /\ UNCHANGED <<jobs, jobs_lock, clock, kinds, entries, pull, stat>>
    /\ HistNext

\* line 80: with jobs_lock
HookAcquire(j) ==
    /\ task[j].pc = "L80"
    /\ jobs_lock = Unlocked
    /\ jobs_lock' = TaskThread(j)
    /\ task' = [task EXCEPT ![j].pc = "L81"]
    /\ UNCHANGED <<jobs, clock, kinds, entries, pull, stat>>
    /\ HistNext

\* lines 81-88, and the end of the with block
HookUpdates(j) ==
    /\ task[j].pc = "L81"
    /\ jobs' = IF j \in JobIds
               THEN [jobs EXCEPT ![j] = DictUpdate(@, task[j].fields)]
               ELSE jobs
    /\ jobs_lock' = Unlocked
    /\ task' = [task EXCEPT ![j] = [@ EXCEPT !.pc = "L135", !.d = NoEvent,
                                        !.fields = NoEvent]]
    /\ UNCHANGED <<clock, kinds, entries, pull, stat>>
    /\ HistNext

(***************************************************************************)
(* The three ends of _run_download.                                        *)
(***************************************************************************)
\* lines 138, 150, 157: with jobs_lock
RunEndAcquire(j) ==
    /\ task[j].pc \in {"L138", "L150", "L157"}
    /\ jobs_lock = Unlocked
    /\ jobs_lock' = TaskThread(j)
    /\ task' = [task EXCEPT ![j].pc = CASE task[j].pc = "L138" -> "L139"
                                        [] task[j].pc = "L150" -> "L151"
                                        [] task[j].pc = "L157" -> "L158"]
    /\ UNCHANGED <<jobs, clock, kinds, entries, pull, stat>>
    /\ HistNext

\* lines 139-147 without the three progress fields
FinishedFieldsWithoutProgress(j) ==
    [status |-> "finished", finished_at |-> Now,
     result_path |-> SeasonDir(Payload(j)),
     message |-> "Download completed successfully"]

\* the dictionary of lines 139-147
FinishedFields(j) ==
    [status |-> "finished", finished_at |-> Now,
     result_path |-> SeasonDir(Payload(j)),
     message |-> "Download completed successfully",
     progress_percent |-> 100, current_title |-> "", speed |-> <<>>]

\* lines 151-155 with the text stored under "message"
ExistsFieldsAsMessage(j) ==
    [status |-> "failed", finished_at |-> Now, message |-> "Season folder already exists"]

\* the dictionary of lines 151-155
ExistsFields(j) ==
    [status |-> "failed", finished_at |-> Now, error |-> "Season folder already exists"]

\* the dictionary of lines 158-162
FailedFields(j) ==
    [status |-> "failed", finished_at |-> Now, error |-> task[j].exc]

\* lines 139-147, and the end of the with block
RunFinished(j) ==
    /\ task[j].pc = "L139"
    /\ jobs' = [jobs EXCEPT ![j] = DictUpdate(@, FinishedFields(j))]
    /\ clock' = clock + 1
    /\ jobs_lock' = Unlocked
    /\ task' = [task EXCEPT ![j].pc = "done"]
    /\ UNCHANGED <<kinds, entries, pull, stat>>
    /\ HistNext

\* lines 149-155: except FileExistsError
RunExists(j) ==
    /\ task[j].pc = "L151"
    /\ jobs' = [jobs EXCEPT ![j] = DictUpdate(@, ExistsFields(j))]
    /\ clock' = clock + 1
    /\ jobs_lock' = Unlocked
    /\ task' = [task EXCEPT ![j].pc = "done"]
    /\ UNCHANGED <<kinds, entries, pull, stat>>
    /\ HistNext

\* lines 156-162 with a clean-up: the season folder is removed with what is
\* in it
RunFailedRemovesFolder(j) ==
    /\ task[j].pc = "L158"
    /\ jobs' = [jobs EXCEPT ![j] = DictUpdate(@, FailedFields(j))]
    /\ clock' = clock + 1
    /\ jobs_lock' = Unlocked
    /\ task' = [task EXCEPT ![j].pc = "done"]
    /\ kinds' = [kinds EXCEPT ![SeasonDir(Payload(j))] = "none"]
    /\ entries' = [entries EXCEPT ![SeasonDir(Payload(j))] = {}]
    /\ UNCHANGED <<pull, stat>>
    /\ HistNext

\* lines 156-162: except Exception as exc
RunFailed(j) ==
    /\ task[j].pc = "L158"
    /\ jobs' = [jobs EXCEPT ![j] = DictUpdate(@, FailedFields(j))]
    /\ clock' = clock + 1
    /\ jobs_lock' = Unlocked
    /\ task' = [task EXCEPT ![j].pc = "done"]
    /\ UNCHANGED <<kinds, entries, pull, stat>>
    /\ HistNext

(***************************************************************************)
(* GET /status/{job_id}, lines 189-231.  meta is a reference to the        *)
(* dictionary in the registry, not a copy: after line 192 every use of     *)
(* meta reads the record as it is at that moment, without the lock.        *)
(***************************************************************************)
\* lines 197-201
Resp197(job_id, meta) ==
    [job_id |-> job_id, status |-> meta.status, created_at |-> DictGet(meta, "created_at", -1)]

\* lines 203-204
Resp203(resp, meta) ==
    IF Has(meta, "progress_percent")
    THEN DictSet(resp, "progress_percent", meta.progress_percent) ELSE resp

\* lines 206-207
Resp206(resp, meta) ==
    IF Has(meta, "current_title") /\ meta.current_title # ""
    THEN DictSet(resp, "current_title", meta.current_title) ELSE resp

\* lines 209-210
Resp209(resp, meta) ==
    IF Has(meta, "speed") /\ meta.speed # <<>>
    THEN DictSet(resp, "speed", meta.speed) ELSE resp

\* lines 212-213
Resp212(resp, meta) ==
    IF Has(meta, "current_episode")
    THEN DictSet(resp, "current_episode", meta.current_episode) ELSE resp

\* lines 215-216
Resp215(resp, meta) ==
    IF meta.status \in {"pending", "running"}
    THEN DictSet(resp, "message", "Job is still processing.") ELSE resp

\* meta.get(key): None when the key is absent
GetOrNone(meta, key) == IF Has(meta, key) THEN <<meta[key]>> ELSE <<>>

\* lines 218-223
Resp218(resp, meta) ==
    IF meta.status = "finished"
    THEN DictUpdate(resp, [finished_at |-> GetOrNone(meta, "finished_at"),
                           result_path |-> GetOrNone(meta, "result_path"),
                           message |-> DictGet(meta, "message", "")])
    ELSE resp

\* lines 225-229
Resp225(resp, meta) ==
    IF meta.status = "failed"
    THEN DictUpdate(resp, [finished_at |-> GetOrNone(meta, "finished_at"),
                           error |-> GetOrNone(meta, "error")])
    ELSE resp

\* the request arrives and line 191 takes jobs_lock
StatusCall(s, job_id) ==
    /\ stat[s].pc = "idle"
    /\ jobs_lock = Unlocked
    /\ jobs_lock' = StatusThread(s)
    /\ stat' = [stat EXCEPT ![s] = [@ EXCEPT !.pc = "L192", !.job_id = job_id]]
    /\ UNCHANGED <<jobs, clock, kinds, entries, pull, task>>
    /\ HistNext

\* line 192 finding only the records of jobs that are pending or running
LookupActiveOnly(job_id) == job_id \in JobIds /\ Active(jobs[job_id])

\* line 192: jobs.get(job_id) finds a record
Lookup(job_id) == job_id \in JobIds

\* lines 192-195: meta = jobs.get(job_id), the end of the with block, and
\* HTTPException(404) when there is no such record
StatusGet(s) ==
    /\ stat[s].pc = "L192"
    /\ jobs_lock' = Unlocked
    /\ stat' = IF Lookup(stat[s].job_id)
               THEN [stat EXCEPT ![s] = [@ EXCEPT !.pc = "L197", !.found = TRUE]]
               ELSE [stat EXCEPT ![s] = [@ EXCEPT !.pc = "sent", !.resp = [code |-> 404]]]
    /\ UNCHANGED <<jobs, clock, kinds, entries, pull, task>>
    /\ HistNext

\* the record meta refers to, as it is now
Meta(s) == jobs[stat[s].job_id]

\* the step of status that starts at line `from`: the response after it and
\* the line that follows
StatusLine(s, from, resp, to) ==
    /\ stat[s].pc = from
    /\ stat' = [stat EXCEPT ![s] = [@ EXCEPT !.pc = to, !.resp = resp]]
    /\ UNCHANGED <<jobs, jobs_lock, clock, kinds, entries, pull, task>>
    /\ HistNext

\* lines 197-231, one read of the record after the other
StatusBuild(s) ==
    \/ StatusLine(s, "L197", Resp197(stat[s].job_id, Meta(s)), "L203")
    \/ StatusLine(s, "L203", Resp203(stat[s].resp, Meta(s)), "L206")
    \/ StatusLine(s, "L206", Resp206(stat[s].resp, Meta(s)), "L209")
    \/ StatusLine(s, "L209", Resp209(stat[s].resp, Meta(s)), "L212")
    \/ StatusLine(s, "L212", Resp212(stat[s].resp, Meta(s)), "L215")
    \/ StatusLine(s, "L215", Resp215(stat[s].resp, Meta(s)), "L218")
    \/ StatusLine(s, "L218", Resp218(stat[s].resp, Meta(s)), "L225")
    \/ StatusLine(s, "L225", DictSet(Resp225(stat[s].resp, Meta(s)), "code", 200), "sent")

\* the response has been sent
StatusDone(s) ==
    /\ stat[s].pc = "sent"
    /\ stat' = [stat EXCEPT ![s] = IdleStatus]
    /\ UNCHANGED <<jobs, jobs_lock, clock, kinds, entries, pull, task>>
    /\ HistNext

\* the whole of lines 197-231 on one value of the record
StatusBody(job_id, meta) ==
    DictSet(Resp225(Resp218(Resp215(Resp212(Resp209(Resp206(Resp203(
        Resp197(job_id, meta), meta), meta), meta), meta), meta), meta), meta), "code", 200)

(***************************************************************************)
(* The specification.                                                      *)
(***************************************************************************)
\* the job ids status is asked for: the ones create can return and one more
AskedIds == 1..(MaxPolledJobs + 1)

\* the calls of pull with a valid body
PullCalls == \E p \in PullThreads, body \in ValidRequests : PullCall(p, body)

\* the calls of pull that end with the conflict error
Conflicts == \E p \in PullThreads : PullConflict(p)

\* the other steps of pull, and the steps of the background tasks and of the
\* downloader
Work ==
    \/ \E p \in PullThreads : PullCreate(p)
    \/ \E p \in PullThreads : PullDone(p)
    \/ \E j \in JobIds : RunImportFails(j)
    \/ \E j \in JobIds : RunAcquire(j)
    \/ \E j \in JobIds : RunSetRunning(j)
    \/ \E j \in JobIds : RunSetStarted(j)
    \/ \E j \in JobIds : RunResetProgress(j)
    \/ \E j \in JobIds : RunMkdirMain(j)
    \/ \E j \in JobIds : RunMkdirSeason(j)
    \/ \E j \in JobIds : RunMkdirFails(j)
    \/ \E j \in JobIds : DownloaderWrites(j)
    \/ \E j \in JobIds, d \in Events : DownloaderCallsHook(j, d)
    \/ \E j \in JobIds, retcode \in {0, 1} : DownloaderReturns(j, retcode)
    \/ \E j \in JobIds : DownloaderRaises(j)
    \/ \E j \in JobIds : HookIgnores(j)
    \/ \E j \in JobIds : HookComputes(j)
    \/ \E j \in JobIds : HookAcquire(j)
    \/ \E j \in JobIds : HookUpdates(j)
    \/ \E j \in JobIds : RunEndAcquire(j)
    \/ \E j \in JobIds : RunFinished(j)
    \/ \E j \in JobIds : RunExists(j)
    \/ \E j \in JobIds : RunFailed(j)

\* the steps of the status handlers
StatusStep ==
    \/ \E s \in StatusThreads, id \in AskedIds : StatusCall(s, id)
    \/ \E s \in StatusThreads : StatusGet(s)
    \/ \E s \in StatusThreads : StatusBuild(s)
    \/ \E s \in StatusThreads : StatusDone(s)

\* the call creates no record or there is room for one more record
Room(cap) == AnyActive \/ Cardinality(JobIds) < cap

\* pull and the background tasks, with at most MaxJobs records
Next ==
    \/ Room(MaxJobs) /\ PullCalls
    \/ Conflicts
    \/ Work

Spec == Init /\ [][Next]_vars

\* the steps of the background task of job j, the downloader's apart
TaskStep(j) ==
    /\ j \in JobIds
    /\ \/ RunImportFails(j)
       \/ RunAcquire(j) \/ RunSetRunning(j) \/ RunSetStarted(j) \/ RunResetProgress(j)
       \/ RunMkdirMain(j) \/ RunMkdirSeason(j)
       \/ HookIgnores(j) \/ HookComputes(j) \/ HookAcquire(j) \/ HookUpdates(j)
       \/ RunEndAcquire(j) \/ RunFinished(j) \/ RunExists(j) \/ RunFailed(j)

\* ydl.download comes to its end
DownloaderEnds(j) ==
    /\ j \in JobIds
    /\ \/ \E retcode \in {0, 1} : DownloaderReturns(j, retcode)
       \/ DownloaderRaises(j)

\* a handler that is in pull goes on to its end
PullStep(p) == PullConflict(p) \/ PullCreate(p) \/ PullDone(p)

\* the scheduling: a thread that can run again and again does run (the lock
\* is not held for ever by the others), and the downloader call ends
Fairness ==
    /\ \A p \in PullThreads : WF_vars(PullStep(p))
    /\ SF_vars(\E j \in JobIds : TaskStep(j))
    /\ SF_vars(\E j \in JobIds : DownloaderEnds(j))

SpecFair == Init /\ [][Next]_vars /\ Fairness

\* pull, the background tasks and status, with at most MaxPolledJobs records;
\* pull is called when it will create a record
NextStatus ==
    \/ ~AnyActive /\ Cardinality(JobIds) < MaxPolledJobs /\ PullCalls
    \/ Work
    \/ StatusStep

SpecStatus == Init /\ [][NextStatus]_vars

\* the next step of the thread that holds jobs_lock
HolderStep ==
    \/ \E p \in PullThreads : jobs_lock = PullThread(p) /\ PullStep(p)
    \/ \E j \in JobIds : jobs_lock = TaskThread(j) /\ TaskStep(j)
    \/ \E s \in StatusThreads : jobs_lock = StatusThread(s) /\ StatusGet(s)

\* the scheduling: the thread that holds the lock is not left out for ever
SpecStatusFair == Init /\ [][NextStatus]_vars /\ WF_vars(HolderStep)

\* the calls of pull with a body that fails validation
Rejects == \E p \in PullThreads, body \in Requests : PullReject(p, body)

\* pull called with every body, valid or not, and the background tasks
NextValidation ==
    \/ Room(MaxJobs) /\ PullCalls
    \/ Rejects
    \/ Conflicts
    \/ Work

SpecValidation == Init /\ [][NextValidation]_vars

(***************************************************************************)
(* The progress hook on its own: hook(d) of                                *)
(* _yt_dlp_progress_hook(job_id, season_dir) is called once, for every     *)
(* event d of HookEvents, on a registry that holds the job or does not,    *)
(* and on every content of the season folder.                              *)
(***************************************************************************)
EmptyDict == <<>>

\* the dictionaries with the one key `key`
Field(key, values) == { key :> v : v \in values }

\* the same, and the dictionary without the key
OptField(key, values) == Field(key, values) \cup {EmptyDict}

\* events with every combination of byte counts, present or not
PercentEvents ==
    { tag @@ dl @@ tb @@ te :
        tag \in Field("status", {"downloading", "finished"}),
        dl \in OptField("downloaded_bytes", 0..MaxBytes),
        tb \in OptField("total_bytes", 0..MaxTotal),
        te \in OptField("total_bytes_estimate", 0..MaxTotal) }

\* the rates in bytes per second: around each threshold of lines 67-71
Rates == {0, 500, KiB - 1, KiB, KiB + 1, 2 * KiB, MiB - 1, MiB, 5 * MiB,
          GiB - MiB, GiB, GiB + MiB}

\* events with a rate, and one without
SpeedEvents ==
    { [status |-> "downloading", downloaded_bytes |-> 1, total_bytes |-> 2,
       info_dict |-> [title |-> "Episode"]] @@ sp : sp \in OptField("speed", Rates) }

\* events with another status tag or with none
TagEvents ==
    { [downloaded_bytes |-> 1, total_bytes |-> 2, speed |-> 2 * KiB,
       info_dict |-> [title |-> "Episode"]] @@ tag :
        tag \in OptField("status", {"error", "started", "processing"}) }

HookEvents == PercentEvents \cup SpeedEvents \cup TagEvents

\* the record of a job that runs, after lines 94-101
RunningRecord(r) ==
    [status |-> "running", created_at |-> 0, payload |-> r, started_at |-> 1,
     progress_percent |-> 0, current_title |-> "", speed |-> <<>>]

\* the registry: job 1 runs, and no or some events were handled before
HookRegistries(r) ==
    { <<RunningRecord(r)>>,
      <<DictUpdate(RunningRecord(r),
                   [progress_percent |-> 50, current_title |-> "Episode",
                    speed |-> <<>>, current_episode |-> 1])>> }

\* the job ids the hook is made for: the job of the registry and a job that
\* is not in it
HookJobIds == {1, 2}

\* the entries a season folder may hold
HookEntries ==
    { [name |-> <<"a", ".", "m", "p", "4">>, kind |-> "file"],
      [name |-> <<"B", ".", "M", "P", "4">>, kind |-> "file"],
      [name |-> <<"c", ".", "m", "4", "a">>, kind |-> "file"],
      [name |-> <<"d", ".", "m", "p", "4">>, kind |-> "dir"] }

\* the downloader is inside ydl.download and calls hook(d)
InitHook ==
    \E r \in ValidRequests, d \in HookEvents, j \in HookJobIds :
        /\ jobs \in HookRegistries(r)
        /\ jobs_lock = Unlocked
        /\ clock = 2
        /\ kinds \in { k \in [Paths -> {"none", "dir"}] :
                         /\ k[MainDir(r)] = "dir"
                         /\ \A sp \in SeasonPaths \ {SeasonDir(r)} : k[sp] = "none" }
        /\ entries \in { e \in [SeasonPaths -> SUBSET HookEntries] :
                           \A sp \in SeasonPaths :
                               (sp # SeasonDir(r) \/ kinds[sp] # "dir") => e[sp] = {} }
        /\ pull = [p \in PullThreads |-> IdlePull]
        /\ stat = [s \in StatusThreads |-> IdleStatus]
        /\ task = (j :> [NewTask EXCEPT !.pc = "L56", !.payload = r, !.d = d,
                                        !.existed = "no", !.invoked = TRUE])
        /\ hist = [s \in StatusThreads |-> {}]

NextHook ==
    \/ \E j \in DOMAIN task : HookIgnores(j)
    \/ \E j \in DOMAIN task : HookComputes(j)
    \/ \E j \in DOMAIN task : HookAcquire(j)
    \/ \E j \in DOMAIN task : HookUpdates(j)

SpecHook == InitHook /\ [][NextHook]_vars

(***************************************************************************)
(* Properties.                                                             *)
(***************************************************************************)
ActiveJobs == { j \in DOMAIN jobs : jobs[j].status \in {"pending", "running"} }

Terminal(j) == jobs[j].status \in {"finished", "failed"}

Sent(p, code) == pull[p].pc = "sent" /\ pull[p].resp.code = code

\* C1: at most one job record is pending or running in any reachable state,
\* and two create calls never both hold a success response at the same time:
\* of the calls that race for one free registry one inserts, the others get
\* the conflict error
C1_SingleActiveJob ==
    /\ Cardinality(ActiveJobs) <= 1
    /\ \A p, q \in PullThreads : Sent(p, 200) /\ Sent(q, 200) => p = q
    /\ \A p \in PullThreads : Sent(p, 200) => pull[p].resp.job_id \in ActiveJobs

\* two calls raced: one holds the success response with the job it created,
\* the other holds the conflict error
C1_Witness ==
    \E p, q \in PullThreads :
        Sent(p, 200) /\ Sent(q, 409) /\ ActiveJobs = {pull[p].resp.job_id}

\* C2: a valid create call ends with the conflict error exactly if a record is
\* pending or running when it checks; then the registry and the tasks are as
\* before; otherwise one record is inserted under an identifier that no record
\* had, with status pending and the request of the call, every other record is
\* as before, and the identifier is returned
C2_CreateOrConflict ==
    [][\A p \in PullThreads :
         (pull[p].pc = "L167" /\ pull'[p].pc # "L167") =>
            IF ActiveJobs # {}
            THEN /\ Sent(p, 409)'
                 /\ jobs' = jobs
                 /\ task' = task
            ELSE /\ Sent(p, 200)'
                 /\ pull'[p].resp.job_id \notin DOMAIN jobs
                 /\ DOMAIN jobs' = DOMAIN jobs \cup {pull'[p].resp.job_id}
                 /\ \A k \in DOMAIN jobs : jobs'[k] = jobs[k]
                 /\ jobs'[pull'[p].resp.job_id].status = "pending"
                 /\ jobs'[pull'[p].resp.job_id].payload = pull[p].request
                 /\ DOMAIN task' = DOMAIN task \cup {pull'[p].resp.job_id}
                 /\ \A k \in DOMAIN task : task'[k] = task[k]]_vars

\* job 1 is terminal and the next create has succeeded, while another call
\* holds the conflict error
C2_Witness ==
    \E p, q \in PullThreads :
        /\ Sent(p, 200) /\ pull[p].resp.job_id = 2 /\ Terminal(1)
        /\ Sent(q, 409)

\* C3: the status of a record changes only by pending -> running,
\* running -> finished and running -> failed, and no record disappears
C3_StatusTransitions ==
    [][\A j \in DOMAIN jobs :
         /\ j \in DOMAIN jobs'
         /\ \/ jobs'[j].status = jobs[j].status
            \/ <<jobs[j].status, jobs'[j].status>> \in
                 { <<"pending", "running">>, <<"running", "finished">>,
                   <<"running", "failed">> }]_vars

\* one job has finished and another has failed
C3_Witness ==
    \E j, k \in DOMAIN jobs : jobs[j].status = "finished" /\ jobs[k].status = "failed"

\* C4: a record has result_path exactly if its status is finished, and error
\* exactly if its status is failed
C4_ResultAndError ==
    \A j \in DOMAIN jobs :
        /\ ("result_path" \in DOMAIN jobs[j]) <=> (jobs[j].status = "finished")
        /\ ("error" \in DOMAIN jobs[j]) <=> (jobs[j].status = "failed")

\* a finished record with its result_path beside a failed record with its error
C4_Witness ==
    \E j, k \in DOMAIN jobs :
        /\ jobs[j].status = "finished" /\ "result_path" \in DOMAIN jobs[j]
        /\ jobs[k].status = "failed" /\ "error" \in DOMAIN jobs[k]
        /\ jobs[k].error = "Season folder already exists"
\* C5: every failure met while the background task runs a job ends in a
\* failed record with an error text, whether the downloader raised or
\* returned an error code, and no record is finished after a failure
C5_FailuresEndFailed ==
    \A j \in DOMAIN jobs :
        /\ (task[j].pc \in {"done", "raised"} /\ (task[j].exc # "" \/ task[j].retcode # 0))
              => (jobs[j].status = "failed" /\ "error" \in DOMAIN jobs[j])
        /\ jobs[j].status = "finished" => (task[j].exc = "" /\ task[j].retcode = 0)

\* C6: with the threads scheduled fairly and the downloader call ending,
\* whenever a record is pending or running there comes a state in which every
\* record is finished or failed, so that a create is accepted again
C6_EveryJobEnds ==
    (\E j \in DOMAIN jobs : jobs[j].status \in {"pending", "running"})
        ~> (\A j \in DOMAIN jobs : jobs[j].status \in {"finished", "failed"})

Answered(s) == stat[s].pc = "sent" /\ stat[s].found

\* C8: the values of a status response all come from one state of the record:
\* the response is what lines 197-231 give on one of the values the record
\* had between the lookup and the return
C8_OneStateOfTheRecord ==
    \A s \in StatusThreads :
        Answered(s) =>
            \E r \in hist[s] : stat[s].resp = StatusBody(stat[s].job_id, r)

ProgressKeys == {"progress_percent", "current_title", "speed", "current_episode"}

\* C9: a status response for a known job has job_id, status and created_at;
\* it has finished_at, result_path and the success message exactly if it
\* reports finished, finished_at and error exactly if it reports failed, the
\* message "Job is still processing." exactly if it reports pending or
\* running, and no progress field if it reports pending
C9_ResponseShape ==
    \A s \in StatusThreads :
        Answered(s) =>
            LET r == stat[s].resp
                K == DOMAIN r
                StillProcessing == "message" \in K /\ r.message = "Job is still processing."
                Success == "message" \in K /\ r.message = "Download completed successfully"
            IN  /\ {"job_id", "status", "created_at"} \subseteq K
                /\ r.job_id = stat[s].job_id
                /\ ("result_path" \in K) <=> (r.status = "finished")
                /\ Success <=> (r.status = "finished")
                /\ ("error" \in K) <=> (r.status = "failed")
                /\ ("finished_at" \in K) <=> (r.status \in {"finished", "failed"})
                /\ StillProcessing <=> (r.status \in {"pending", "running"})
                /\ r.status = "pending" => K \cap ProgressKeys = {}

\* C10: the lookup of a status read ends in 404 exactly if no create has
\* returned the job id, and no record ever leaves the registry
C10_NotFoundIffNeverCreated ==
    /\ [][DOMAIN jobs \subseteq DOMAIN jobs']_vars
    /\ [][\A s \in StatusThreads :
            (stat[s].pc = "L192" /\ stat'[s].pc # "L192") =>
               ((stat'[s].pc = "sent" /\ stat'[s].resp.code = 404)
                   <=> (stat[s].job_id \notin DOMAIN task))]_vars

\* a job has finished, its task is over, and a status read has found it
C10_Witness ==
    \E s \in StatusThreads :
        /\ stat[s].pc = "L197" /\ stat[s].found
        /\ task[stat[s].job_id].pc = "done"
        /\ hist[s] = {jobs[stat[s].job_id]}

\* a call of pull whose body violates a field constraint
Invalid(p) == pull[p].request # NoRequest /\ ~RequestPayload(pull[p].request)

\* C11: a create call whose body violates a field constraint is answered
\* with the validation error, also while a job is active; it never reaches
\* the test for an active job, and the step that answers it leaves the
\* registry, the tasks, the lock and the file system as they are
C11_InvalidBodyRejected ==
    /\ [](\A p \in PullThreads :
            /\ Invalid(p) => Sent(p, 422)
            /\ pull[p].pc = "L167" => RequestPayload(pull[p].request)
            /\ Sent(p, 422) => Invalid(p))
    /\ [][\A p \in PullThreads :
            (Invalid(p)' /\ ~Invalid(p)) =>
               /\ jobs' = jobs /\ task' = task /\ jobs_lock' = jobs_lock
               /\ kinds' = kinds /\ entries' = entries]_vars
    /\ [][\A p \in PullThreads :
            (Invalid(p) /\ ~Invalid(p)') =>
               /\ jobs' = jobs /\ task' = task /\ jobs_lock' = jobs_lock]_vars

\* each of the four invalid bodies is rejected while a job is running, and a
\* body with a bad season is rejected while another call holds the lock
C11_Witness ==
    \E p, q \in PullThreads :
        /\ Sent(p, 422) /\ pull[p].request.season = 0
        /\ \E j \in DOMAIN jobs : jobs[j].status = "running"
        /\ pull[q].pc = "L167"

\* the hook of job j has computed the fields of its event
Computed(j) == task[j].pc \in {"L80", "L81"}

\* the byte counts of an event: the total is total_bytes, or else
\* total_bytes_estimate, and 0 if neither is known
EventTotal(d) ==
    IF "total_bytes" \in DOMAIN d /\ d.total_bytes # 0 THEN d.total_bytes
    ELSE IF "total_bytes_estimate" \in DOMAIN d THEN d.total_bytes_estimate
    ELSE 0

EventDownloaded(d) == IF "downloaded_bytes" \in DOMAIN d THEN d.downloaded_bytes ELSE 0

\* C12: the progress_percent of an event with tag downloading or finished
\* is floor(downloaded / total * 100) if the total is known and not 0, and 0
\* otherwise, and it lies in 0..100, as does every progress_percent stored
\* in the registry
C12_PercentInRange ==
    /\ \A j \in DOMAIN task :
          Computed(j) =>
             /\ task[j].fields.progress_percent =
                   IF EventTotal(task[j].d) # 0
                   THEN (EventDownloaded(task[j].d) * 100) \div EventTotal(task[j].d)
                   ELSE 0
             /\ task[j].fields.progress_percent \in 0..100
    /\ \A j \in DOMAIN jobs :
          "progress_percent" \in DOMAIN jobs[j] => jobs[j].progress_percent \in 0..100

\* the speed string with inclusive thresholds
InclusiveSpeed(rate) ==
    IF rate = 0 THEN <<>>
    ELSE IF rate >= GiB THEN Format2f(rate, GiB) \o <<" ", "G", "i", "B", "/", "s">>
    ELSE IF rate >= MiB THEN Format2f(rate, MiB) \o <<" ", "M", "i", "B", "/", "s">>
    ELSE IF rate >= KiB THEN Format2f(rate, KiB) \o <<" ", "K", "i", "B", "/", "s">>
    ELSE Decimal(rate) \o <<" ", "B", "/", "s">>

\* C13: the speed string of an event has the unit of the largest of 1024^3,
\* 1024^2 and 1024 that the rate reaches (rate >= threshold), B/s without
\* decimals below 1024, and is empty for an unknown or zero rate
C13_SpeedUnits ==
    \A j \in DOMAIN task :
        Computed(j) =>
            task[j].fields.speed =
                InclusiveSpeed(IF "speed" \in DOMAIN task[j].d THEN task[j].d.speed ELSE 0)

\* the event that the hook of job j handles has the tag downloading or finished
Tagged(j) ==
    "status" \in DOMAIN task[j].d /\ task[j].d.status \in {"downloading", "finished"}

InHook(j) == task[j].pc \in {"L56", "L80", "L81"}

\* C14: the hook never gets to its update with an event whose tag is neither
\* downloading nor finished; every step of the hook on such an event, and
\* every step of the hook of a job that is not in the registry, leaves the
\* registry and the file system as they are and raises nothing
C14_IgnoredEventsChangeNothing ==
    /\ [](\A j \in DOMAIN task : Computed(j) => Tagged(j))
    /\ [][\A j \in DOMAIN task :
            (InHook(j) /\ task'[j] # task[j] /\ (~Tagged(j) \/ j \notin DOMAIN jobs)) =>
               /\ jobs' = jobs /\ kinds' = kinds /\ entries' = entries
               /\ task'[j].exc = ""
               /\ task'[j].pc \in {"L80", "L81", "L135"}
               /\ ~Tagged(j) => (task'[j].pc = "L135" /\ jobs_lock' = jobs_lock)]_vars

\* the hook of a job that is not in the registry is at its update, with the
\* lock, next to the record of another job
C14_Witness ==
    \E j \in DOMAIN task :
        /\ task[j].pc = "L81" /\ jobs_lock = TaskThread(j)
        /\ j \notin DOMAIN jobs /\ jobs # <<>>

\* the name ends with .mp4, in upper or lower case, after a stem
EndsWithMp4(name) ==
    LET n == Len(name)
    IN  /\ n > 4
        /\ name[n - 3] = "." /\ name[n - 2] \in {"m", "M"}
        /\ name[n - 1] \in {"p", "P"} /\ name[n] = "4"

\* the number of regular .mp4 files in a folder, 0 if it is no folder
Mp4Files(folder) ==
    IF kinds[folder] # "dir" THEN 0
    ELSE Cardinality({ p \in entries[folder] : p.kind = "file" /\ EndsWithMp4(p.name) })

\* C15: the current_episode that an event computes and writes is the number
\* of regular .mp4 files (in any case) in the season folder of the job at
\* the event, 0 without the folder, whatever the event and whatever earlier
\* events have written
C15_EpisodeIsFileCount ==
    /\ [](\A j \in DOMAIN task :
            Computed(j) =>
               task[j].fields.current_episode = Mp4Files(SeasonDir(task[j].payload)))
    /\ [][\A j \in DOMAIN task :
            (task[j].pc = "L81" /\ task'[j].pc # "L81" /\ j \in DOMAIN jobs) =>
               jobs'[j].current_episode = Mp4Files(SeasonDir(task[j].payload))]_vars

\* an event has written 2 for a folder that holds two .mp4 files, an audio
\* file and a folder named like a video
C15_Witness ==
    \E j \in DOMAIN task \cap DOMAIN jobs :
        /\ task[j].pc = "L135"
        /\ "current_episode" \in DOMAIN jobs[j] /\ jobs[j].current_episode = 2
        /\ entries[SeasonDir(task[j].payload)] = HookEntries

\* C16: in every state a record has started_at and progress_percent exactly
\* if its status is not pending (the step pending -> running writes them
\* together with the status), and finished_at exactly if its status is
\* finished or failed
C16_StartedWithRunning ==
    \A j \in DOMAIN jobs :
        /\ ("started_at" \in DOMAIN jobs[j]) <=> (jobs[j].status # "pending")
        /\ ("progress_percent" \in DOMAIN jobs[j]) <=> (jobs[j].status # "pending")
        /\ ("finished_at" \in DOMAIN jobs[j]) <=> (jobs[j].status \in {"finished", "failed"})

\* C17: a finished record has progress_percent 100, an empty current_title,
\* an empty speed, the success message, and as result_path the season
\* folder that the task of this job created; a finished record never
\* changes, and the hook of its job is never at work
C17_FinishedIsFinal ==
    /\ [](\A j \in DOMAIN jobs :
            jobs[j].status = "finished" =>
               /\ jobs[j].progress_percent = 100
               /\ jobs[j].current_title = "" /\ jobs[j].speed = <<>>
               /\ jobs[j].message = "Download completed successfully"
               /\ jobs[j].result_path = SeasonDir(jobs[j].payload)
               /\ task[j].existed = "no" /\ kinds[jobs[j].result_path] = "dir"
               /\ task[j].pc = "done")
    /\ [][\A j \in DOMAIN jobs :
            jobs[j].status = "finished" => (jobs'[j] = jobs[j] /\ task'[j] = task[j])]_vars

\* a job has finished after an event had written a title, a speed and 50
\* percent
C17_Witness ==
    \E j \in DOMAIN jobs :
        /\ jobs[j].status = "finished"
        /\ "current_episode" \in DOMAIN jobs[j] /\ jobs[j].current_episode = 1

\* the lines at which a task holds jobs_lock
TaskLockedLines == {"L95", "L96", "L97", "L81", "L139", "L151", "L158"}

\* C18: jobs_lock is held only at the lines that read or write the registry:
\* never by a task that is creating a folder, inside ydl.download or listing
\* the season folder (lines 107, 112, 135, 56-78); the holder can always
\* take its next step, and the lock, once taken, is released
C18_LockHeldBriefly ==
    /\ [](\A j \in DOMAIN task :
            (jobs_lock = TaskThread(j)) <=> (task[j].pc \in TaskLockedLines))
    /\ [](\A p \in PullThreads : (jobs_lock = PullThread(p)) <=> (pull[p].pc = "L167"))
    /\ [](\A s \in StatusThreads : (jobs_lock = StatusThread(s)) <=> (stat[s].pc = "L192"))
    /\ [](jobs_lock # Unlocked => ENABLED HolderStep)
    /\ (jobs_lock # Unlocked) ~> (jobs_lock = Unlocked)

\* a status read is answered while the task of its job is inside ydl.download
C18_Witness ==
    \E s \in StatusThreads :
        /\ Answered(s) /\ task[stat[s].job_id].pc = "L135"
        /\ stat[s].resp.status = "running" /\ "current_episode" \in DOMAIN stat[s].resp

\* C19: a record has the error "Season folder already exists" only if the
\* season folder of its request was there when line 112 tried to create it;
\* after any other failure the error is the text of that failure
C19_ConflictOnlyForSeasonFolder ==
    \A j \in DOMAIN jobs :
        jobs[j].status = "failed" =>
            /\ jobs[j].error = "Season folder already exists" => task[j].existed = "yes"
            /\ task[j].existed # "yes" => jobs[j].error = task[j].exc

\* job k was created after job j for the same season folder, which the task
\* of job j has created
RetryOf(j, k) ==
    /\ j < k
    /\ SeasonDir(task[j].payload) = SeasonDir(task[k].payload)
    /\ task[j].existed = "no"

\* C20: a folder is never removed and a season folder never loses an entry;
\* once the task of a job has created its season folder, no later job for
\* the same folder invokes the downloader, creates the folder or finishes:
\* it ends failed, with "Season folder already exists" unless creating the
\* folders failed with another error of the file system; and no two
\* finished records have the same result_path
C20_SeasonFolderStays ==
    /\ [][/\ \A path \in Paths : kinds[path] = "dir" => kinds'[path] = "dir"
          /\ \A sp \in SeasonPaths : entries[sp] \subseteq entries'[sp]]_vars
    /\ [](\A j, k \in DOMAIN jobs :
            RetryOf(j, k) =>
               /\ ~task[k].invoked /\ task[k].existed # "no"
               /\ jobs[k].status # "finished"
               /\ task[k].pc = "done" =>
                     /\ jobs[k].status = "failed"
                     /\ jobs[k].error =
                           IF task[k].existed = "yes" THEN "Season folder already exists"
                           ELSE "[Errno 13] Permission denied")
    /\ [](\A j, k \in DOMAIN jobs :
            (jobs[j].status = "finished" /\ jobs[k].status = "finished" /\ j # k)
               => jobs[j].result_path # jobs[k].result_path)

\* C20 as it is stated: every later job for a season folder that an earlier
\* job has created ends failed with "Season folder already exists"
C20_RetryEndsInConflict ==
    \A j, k \in DOMAIN jobs :
        (RetryOf(j, k) /\ task[k].pc = "done") =>
            /\ jobs[k].status = "failed"
            /\ jobs[k].error = "Season folder already exists"

\* job 1 failed inside the downloader after it had written a file, and job
\* 2, with the same request, has ended on the folder that job 1 left
C20_Witness ==
    \E j, k \in DOMAIN jobs :
        /\ RetryOf(j, k) /\ jobs[j].payload = jobs[k].payload
        /\ task[j].invoked /\ jobs[j].status = "failed"
        /\ entries[SeasonDir(task[j].payload)] # {}
        /\ task[k].pc = "done" /\ jobs[k].error = "Season folder already exists"

====
